---- MODULE Spec2Model ----
(***************************************************************************)
(* Paradox analyzer of panopticum_show (project/app/test.py).              *)
(*                                                                         *)
(* analyze_points scans an ordered list of points, each a one-entry        *)
(* mapping {home_id: [volts, ampers, power, resistance]}, computes a       *)
(* "delta" for every interior point and returns the entry with the         *)
(* greatest delta.                                                         *)
(*                                                                         *)
(* Numbers.  The program computes in Python floats (IEEE binary64).  A     *)
(* float is modelled as a record                                           *)
(*     [k |-> "fin", n |-> numerator, d |-> denominator]   (reduced, d>0)  *)
(*     [k |-> "inf", n |-> 1 or -1,  d |-> 0]                              *)
(*     [k |-> "nan", n |-> 0,        d |-> 0]                              *)
(* Finite values are exact rationals: rounding of the significand is       *)
(* abstracted away, the finite RANGE of the format is kept.  A finite      *)
(* result whose magnitude exceeds MaxFloat overflows: to an infinity for   *)
(* add, subtract, multiply and divide, to OverflowError for the power      *)
(* operator.  A non-zero result whose magnitude is below 1/MaxFloat        *)
(* underflows to zero.  MaxFloat is the 2^1024 of binary64 scaled down to  *)
(* 2^MaxExp.                                                               *)
(***************************************************************************)
EXTENDS Integers, Sequences, FiniteSets, TLC

\* ---------------------------------------------------------------- bounds
\* longest generated input sequence
MaxLen == 5
\* exponent of the largest finite float of the scaled-down format
MaxExp == 15

RECURSIVE TwoTo(_)
TwoTo(e) == IF e = 0 THEN 1 ELSE 2 * TwoTo(e - 1)

\* largest finite magnitude; 1/MaxFloat is the smallest non-zero one
MaxFloat == TwoTo(MaxExp)

\* --------------------------------------------------------- float values
Abs(a) == IF a < 0 THEN -a ELSE a

RECURSIVE Gcd(_, _)
Gcd(a, b) == IF b = 0 THEN a ELSE Gcd(b, a % b)

PInf == [k |-> "inf", n |-> 1, d |-> 0]
NInf == [k |-> "inf", n |-> -1, d |-> 0]
NaN == [k |-> "nan", n |-> 0, d |-> 0]

\* the finite float n/d, reduced (no range check: a literal of the program)
Fin(n, d) ==
    LET g == Gcd(Abs(n), d)
    IN  [k |-> "fin", n |-> n \div g, d |-> d \div g]

Zero == Fin(0, 1)

IsFin(x) == x.k = "fin"
IsInf(x) == x.k = "inf"
IsNaN(x) == x.k = "nan"

Sign(a) == IF a < 0 THEN -1 ELSE IF a > 0 THEN 1 ELSE 0

\* |n|/d > MaxFloat, without forming MaxFloat * d
TooBig(n, d) ==
    \/ Abs(n) \div d > MaxFloat
    \/ Abs(n) \div d = MaxFloat /\ Abs(n) % d > 0

\* 0 < |n|/d < 1/MaxFloat, without forming MaxFloat * |n|
TooSmall(n, d) ==
    /\ n # 0
    /\ \/ d \div Abs(n) > MaxFloat
       \/ d \div Abs(n) = MaxFloat /\ d % Abs(n) > 0

\* the float an exact result n/d (d > 0) is delivered as
Range(n, d) ==
    IF TooBig(n, d) THEN (IF n > 0 THEN PInf ELSE NInf)
    ELSE IF TooSmall(n, d) THEN Zero
    ELSE Fin(n, d)

\* x == 0 / x != 0 of the program (false / true for NaN and infinities)
IsZero(x) == IsFin(x) /\ x.n = 0

\* x + y
FAdd(x, y) ==
    IF IsNaN(x) \/ IsNaN(y) THEN NaN
    ELSE IF IsInf(x) /\ IsInf(y) THEN (IF x.n = y.n THEN x ELSE NaN)
    ELSE IF IsInf(x) THEN x
    ELSE IF IsInf(y) THEN y
    ELSE LET g == Gcd(x.d, y.d)
         IN  Range(x.n * (y.d \div g) + y.n * (x.d \div g), (x.d \div g) * y.d)

FNeg(x) == [x EXCEPT !.n = -x.n]

\* x - y
FSub(x, y) == FAdd(x, FNeg(y))

\* x * y
FMul(x, y) ==
    IF IsNaN(x) \/ IsNaN(y) THEN NaN
    ELSE IF IsInf(x) \/ IsInf(y) THEN
        (IF IsZero(x) \/ IsZero(y) THEN NaN
         ELSE IF Sign(x.n) * Sign(y.n) > 0 THEN PInf ELSE NInf)
    ELSE LET g1 == Gcd(Abs(x.n), y.d)
             g2 == Gcd(Abs(y.n), x.d)
         IN  IF x.n = 0 \/ y.n = 0 THEN Zero
             ELSE Range((x.n \div g1) * (y.n \div g2),
                        (x.d \div g2) * (y.d \div g1))

\* x / y for y != 0 (the caller raises ZeroDivisionError for y == 0)
FDiv(x, y) ==
    IF IsNaN(x) \/ IsNaN(y) THEN NaN
    ELSE IF IsInf(y) THEN (IF IsInf(x) THEN NaN ELSE Zero)
    ELSE IF IsInf(x) THEN (IF x.n * Sign(y.n) > 0 THEN PInf ELSE NInf)
    ELSE FMul(x, [k |-> "fin", n |-> Sign(y.n) * y.d, d |-> Abs(y.n)])

\* a/b < c/d for a, c >= 0 and b, d > 0, by continued fractions
RECURSIVE LtPos(_, _, _, _)
LtPos(a, b, c, d) ==
    IF a \div b # c \div d THEN a \div b < c \div d
    ELSE IF c % d = 0 THEN FALSE
    ELSE IF a % b = 0 THEN TRUE
    ELSE LtPos(d, c % d, b, a % b)

\* x < y of the program (false when either side is NaN)
FLt(x, y) ==
    IF IsNaN(x) \/ IsNaN(y) THEN FALSE
    ELSE IF IsInf(x) THEN x.n < 0 /\ ~(IsInf(y) /\ y.n < 0)
    ELSE IF IsInf(y) THEN y.n > 0
    ELSE IF x.n < 0 /\ y.n >= 0 THEN TRUE
    ELSE IF x.n >= 0 /\ y.n < 0 THEN FALSE
    ELSE IF x.n < 0 THEN LtPos(-y.n, y.d, -x.n, x.d)
    ELSE LtPos(x.n, x.d, y.n, y.d)

\* x > y, x >= y of the program
FGt(x, y) == FLt(y, x)
FGe(x, y) == ~IsNaN(x) /\ ~IsNaN(y) /\ ~FLt(x, y)

\* a value together with the exception its computation raised, if any
Ok(x) == [err |-> "none", val |-> x]
Raise(e) == [err |-> e, val |-> Zero]

\* an integer that is at least the square root of MaxFloat
SqrtCeil == TwoTo((MaxExp + 1) \div 2)

\* x ** 2: OverflowError when a finite x has a square out of range (the
\* first test settles the large magnitudes without forming the square)
FSquare(x) ==
    IF IsNaN(x) THEN Ok(NaN)
    ELSE IF IsInf(x) THEN Ok(PInf)
    ELSE IF Abs(x.n) \div x.d > SqrtCeil THEN Raise("OverflowError")
    ELSE IF TooBig(x.n * x.n, x.d * x.d) THEN Raise("OverflowError")
    ELSE Ok(Range(x.n * x.n, x.d * x.d))

\* x / y of the program: ZeroDivisionError when y == 0
FDivide(x, y) ==
    IF IsZero(y) THEN Raise("ZeroDivisionError") ELSE Ok(FDiv(x, y))

\* ------------------------------------------------------------- points
\* the one-entry mapping {home_id: [volts, ampers, power, resistance]}
Point(id, volts, ampers, power, resistance) ==
    [home_id |-> id, values |-> <<volts, ampers, power, resistance>>]

\* lst[index] with Python's 0-based index
At(lst, index) == lst[index + 1]

\* lst[from:] taken one position early
SliceFromEarly(lst, from) ==
    IF from - 1 >= Len(lst) THEN << >> ELSE SubSeq(lst, from, Len(lst))

\* lst[from:]
SliceFrom(lst, from) ==
    IF from >= Len(lst) THEN << >> ELSE SubSeq(lst, from + 1, Len(lst))

\* sum(...) of Python: starts from 0 and adds from left to right
RECURSIVE SumFrom(_, _, _)
SumFrom(acc, lst, index) ==
    IF lst = << >> THEN acc
    ELSE SumFrom(FAdd(acc, At(Head(lst).values, index)), Tail(lst), index)

sum_by_index(lst, index) == SumFrom(Zero, lst, index)

\* the test without its resistance half
GuardedBySumOnly(future_ampers_sum, current_resistance) ==
    IsZero(future_ampers_sum)

\* the test without its current-sum half
GuardedByResistanceOnly(future_ampers_sum, current_resistance) ==
    IsZero(current_resistance)

\* the test that sets delta to 0 instead of dividing
Guarded(future_ampers_sum, current_resistance) ==
    IsZero(future_ampers_sum) \/ IsZero(current_resistance)

\* one iteration of the loop of analyze_points, for the 0-based index i:
\* the entry appended to deltas, or the exception raised
Iteration(pts, i) ==
    LET current == At(pts, i)
        next_home == At(pts, i + 1)
        home_id == current.home_id
        current_volts == At(current.values, 0)
        current_resistance == At(current.values, 3)
        next_volts == At(next_home.values, 0)
        volt_diff == FSquare(FSub(current_volts, next_volts))
        volt_power == IF ~IsZero(current_resistance)
                      THEN FDiv(volt_diff.val, current_resistance)
                      ELSE Zero
        future_points == SliceFrom(pts, i + 2)
        future_ampers_sum == sum_by_index(future_points, 1)
        square == FSquare(future_ampers_sum)
        amper_power == FMul(square.val, current_resistance)
        delta == FDivide(volt_power, amper_power)
    IN  IF volt_diff.err # "none" THEN [err |-> volt_diff.err, delta |-> Zero, home_id |-> home_id]
        ELSE IF Guarded(future_ampers_sum, current_resistance)
             THEN [err |-> "none", delta |-> Zero, home_id |-> home_id]
        ELSE IF square.err # "none" THEN [err |-> square.err, delta |-> Zero, home_id |-> home_id]
        ELSE [err |-> delta.err, delta |-> delta.val, home_id |-> home_id]

\* the for loop from index i on: the deltas collected and the exception
\* that ended the loop, if any
RECURSIVE Loop(_, _, _)
Loop(pts, i, acc) ==
    IF i >= Len(pts) - 1 THEN [err |-> "none", deltas |-> acc]
    ELSE LET it == Iteration(pts, i)
         IN  IF it.err # "none" THEN [err |-> it.err, deltas |-> acc]
             ELSE Loop(pts, i + 1,
                       Append(acc, [delta |-> it.delta, home_id |-> it.home_id]))

\* the loop started at index 0
RunLoopFromZero(pts) == Loop(pts, 0, << >>)

\* for i in range(1, len(points) - 1)
RunLoop(pts) == Loop(pts, 1, << >>)

\* a scan in which a later item with an equal key replaces the maximum
RECURSIVE MaxScanLast(_, _)
MaxScanLast(best, rest) ==
    IF rest = << >> THEN best
    ELSE MaxScanLast(IF FGe(Head(rest).delta, best.delta) THEN Head(rest) ELSE best,
                     Tail(rest))

\* a scan that keeps the smallest key
RECURSIVE MinScan(_, _)
MinScan(best, rest) ==
    IF rest = << >> THEN best
    ELSE MinScan(IF FLt(Head(rest).delta, best.delta) THEN Head(rest) ELSE best,
                 Tail(rest))

\* max(deltas, key=...) on a non-empty list: a later item replaces the
\* running maximum only when its key is greater
RECURSIVE MaxScan(_, _)
MaxScan(best, rest) ==
    IF rest = << >> THEN best
    ELSE MaxScan(IF FGt(Head(rest).delta, best.delta) THEN Head(rest) ELSE best,
                 Tail(rest))

NoResult == [status |-> "none", delta |-> Zero, home_id |-> 0]

Failure(e) == [status |-> e, delta |-> Zero, home_id |-> 0]

\* max(deltas, key=lambda x: x["delta"]): ValueError on an empty list
MaxDelta(lst) ==
    IF lst = << >> THEN Failure("ValueError")
    ELSE LET m == MaxScan(Head(lst), Tail(lst))
         IN  [status |-> "ok", delta |-> m.delta, home_id |-> m.home_id]

\* analyze_points(points): the value returned or the exception raised
analyze_points(pts) ==
    LET l == RunLoop(pts)
    IN  IF l.err # "none" THEN Failure(l.err) ELSE MaxDelta(l.deltas)

\* ------------------------------------------------------------- inputs
\* the reference series of the module
data == <<
    Point(1, Fin(230, 1), Fin(8449, 100), Fin(19002, 1), Fin(0, 1)),
    Point(2, Fin(57183, 250), Fin(143, 20), Fin(1635, 1), Fin(3, 200)),
    Point(3, Fin(56893, 250), Fin(123, 20), Fin(1635, 1), Fin(3, 200)),
    Point(4, Fin(28313, 125), Fin(73, 20), Fin(827, 1), Fin(3, 200)),
    Point(5, Fin(225491, 1000), Fin(209, 50), Fin(941, 1), Fin(3, 200)),
    Point(6, Fin(11227, 50), Fin(239, 50), Fin(1073, 1), Fin(3, 200)),
    Point(7, Fin(223661, 1000), Fin(399, 100), Fin(893, 1), Fin(3, 200)),
    Point(8, Fin(111421, 500), Fin(293, 100), Fin(653, 1), Fin(3, 200)),
    Point(9, Fin(222067, 1000), Fin(118, 25), Fin(1049, 1), Fin(3, 200)),
    Point(10, Fin(110681, 500), Fin(461, 100), Fin(1021, 1), Fin(3, 200)),
    Point(11, Fin(220727, 1000), Fin(513, 100), Fin(1133, 1), Fin(3, 200)),
    Point(12, Fin(220169, 1000), Fin(489, 100), Fin(1077, 1), Fin(3, 200)),
    Point(13, Fin(54921, 250), Fin(211, 50), Fin(928, 1), Fin(3, 200)),
    Point(14, Fin(219263, 1000), Fin(477, 100), Fin(1045, 1), Fin(3, 200)),
    Point(15, Fin(218913, 1000), Fin(96, 25), Fin(840, 1), Fin(3, 200)),
    Point(16, Fin(218621, 1000), Fin(91, 20), Fin(995, 1), Fin(3, 200)),
    Point(17, Fin(218397, 1000), Fin(97, 20), Fin(1060, 1), Fin(3, 200)),
    Point(18, Fin(109123, 500), Fin(163, 50), Fin(710, 1), Fin(3, 200)),
    Point(19, Fin(27268, 125), Fin(341, 50), Fin(1487, 1), Fin(3, 200)) >>

\* square root of the largest finite magnitude (rounded down)
SqrtMax == TwoTo(MaxExp \div 2)

\* a voltage near the top of the range: its difference with an ordinary
\* voltage is finite and has a square out of range, its difference with
\* its opposite is out of range
BigVolts == MaxFloat - 8

\* a current whose square underflows
Tiny == Fin(1, 2 * SqrtMax)

\* the points input sequences are built from: ordinary readings, a reading
\* with zero current and zero resistance, one with negative current and
\* resistance, one with a current whose square underflows, and two with
\* voltages at the ends of the range (one of them with a resistance there)
PointChoices ==
    { Point(1, Fin(3, 1), Fin(1, 1), Fin(3, 1), Fin(1, 1)),
      Point(2, Fin(1, 1), Fin(1, 1), Fin(1, 1), Fin(2, 1)),
      Point(3, Fin(1, 1), Fin(0, 1), Fin(0, 1), Fin(0, 1)),
      Point(4, Fin(2, 1), Fin(-1, 1), Fin(-2, 1), Fin(-1, 1)),
      Point(5, Fin(1, 1), Tiny, Tiny, Fin(1, 1)),
      Point(6, Fin(BigVolts, 1), Fin(1, 1), Fin(BigVolts, 1), Fin(MaxFloat, 1)),
      Point(7, Fin(-BigVolts, 1), Fin(1, 1), Fin(-BigVolts, 1), Fin(1, 1)) }

\* every sequence of at most MaxLen of these points, and the reference series
Inputs == UNION { [1..n -> PointChoices] : n \in 0..MaxLen } \cup { data }

\* --------------------------------------------------------------- state
VARIABLES
    points,   \* the argument of the call
    pc,       \* "call" before analyze_points runs, "done" after
    deltas,   \* the list deltas as the loop left it
    delt      \* what the call produced: the entry returned or the exception

\* the state of the module-level call delt = analyze_points(data)
callVars == <<points, pc, deltas, delt>>

VARIABLES
    table,         \* the rows of the points table, in the order they are stored
    snapshot,      \* the list the last request passed to analyze_points
                   \* (empty when it passed none: a local of the handler)
    paradox_point  \* what that call of analyze_points produced

\* the state of the HTTP service
storeVars == <<table, snapshot, paradox_point>>

VARIABLES
    args,     \* caller -> the list object it passes to analyze_points
    given,    \* caller -> that list as it was when the caller made it
    cpc,      \* caller -> "call", "loop" or "done"
    ci,       \* caller -> the loop index i of its call
    cdeltas,  \* caller -> the list deltas of its call
    cres      \* caller -> what its call produced

\* the state of the concurrent callers
callerVars == <<args, given, cpc, ci, cdeltas, cres>>

vars == <<callVars, storeVars, callerVars>>

\* no concurrent callers
CallersIdle ==
    /\ args = << >>
    /\ given = << >>
    /\ cpc = << >>
    /\ ci = << >>
    /\ cdeltas = << >>
    /\ cres = << >>

\* the service before any request
StoreIdle ==
    /\ table = << >>
    /\ snapshot = << >>
    /\ paradox_point = NoResult

Init ==
    /\ points \in Inputs
    /\ pc = "call"
    /\ deltas = << >>
    /\ delt = NoResult
    /\ StoreIdle
    /\ CallersIdle

\* delt = analyze_points(points)
Analyze ==
    /\ pc = "call"
    /\ pc' = "done"
    /\ deltas' = RunLoop(points).deltas
    /\ delt' = analyze_points(points)
    /\ UNCHANGED points
    /\ UNCHANGED storeVars
    /\ UNCHANGED callerVars

Next == Analyze

Spec == Init /\ [][Next]_vars

\* ------------------------------------------------------- the HTTP service
\* most rows the table holds
MaxRows == 3
\* home_num values a request can carry (positions along the line; the
\* program stores them as strings)
MaxHomeNum == 2

\* volts, ampers, power, resistance of a request
Readings ==
    { <<Fin(3, 1), Fin(1, 1), Fin(3, 1), Fin(1, 1)>>,
      <<Fin(1, 1), Fin(1, 1), Fin(1, 1), Fin(2, 1)>> }

\* a Point row: home_id is the primary key
Row(id, num, r) ==
    [home_id |-> id, home_num |-> num,
     volts |-> r[1], ampers |-> r[2], power |-> r[3], resistance |-> r[4]]

\* the key the database gives a new row (keys are modelled up to renaming:
\* rows are only ever deleted all together)
NewId(rows) == Len(rows) + 1

\* session.add(Point(...)) of one row, committed
Insert(rows, num, r) == Append(rows, Row(NewId(rows), num, r))

\* select(Point): the query has no ORDER BY and no other clause; the rows
\* are delivered in the order they are stored, which is the order the
\* database gives for a table that was only appended to (any other order a
\* database may choose can only add snapshots that are out of order)
SelectAll(rows) == rows

\* extract_home_data: one {home_id: [volts, ampers, power, resistance,
\* home_num]} per row, in the order of the rows
extract_home_data(rows) ==
    [i \in 1..Len(rows) |->
        [home_id |-> rows[i].home_id,
         values |-> <<rows[i].volts, rows[i].ampers, rows[i].power,
                      rows[i].resistance, rows[i].home_num>>]]

\* normalize_dict_to_list: one [name, value, ...] list per column of the
\* sheet, in the order of the columns
normalize_dict_to_list(sheet) == sheet

\* the columns of an uploaded sheet: the header is the home_num
Columns == { <<num>> \o r : num \in 1..MaxHomeNum, r \in Readings }

InitStore ==
    /\ points = << >>
    /\ pc = "off"
    /\ deltas = << >>
    /\ delt = NoResult
    /\ StoreIdle
    /\ CallersIdle

\* a request that does not reach analyze_points
NoAnalysis ==
    /\ snapshot' = << >>
    /\ paradox_point' = NoResult

\* POST /create_point
create_point ==
    /\ Len(table) < MaxRows
    /\ \E num \in 1..MaxHomeNum, r \in Readings :
         table' = Insert(table, num, r)
    /\ NoAnalysis
    /\ UNCHANGED callVars
    /\ UNCHANGED callerVars

\* the rows of points[1:] added one after the other
RECURSIVE InsertAll(_, _)
InsertAll(rows, cols) ==
    IF cols = << >> THEN rows
    ELSE InsertAll(Insert(rows, Head(cols)[1], SubSeq(Head(cols), 2, 5)),
                   Tail(cols))

\* POST /create_points_excel: every column but the first becomes a row
create_points_excel ==
    /\ \E k \in 1..MaxRows :
         \E sheet \in [1..k -> Columns] :
            /\ Len(table) + (k - 1) <= MaxRows
            /\ table' = InsertAll(table, Tail(normalize_dict_to_list(sheet)))
    /\ NoAnalysis
    /\ UNCHANGED callVars
    /\ UNCHANGED callerVars

\* the row after the fields of the request that are set were assigned
Updated(row, upd) ==
    [f \in DOMAIN row |-> IF f \in DOMAIN upd THEN upd[f] ELSE row[f]]

\* the bodies of an update request: any subset of the fields set
Updates ==
    { [home_num |-> num] : num \in 1..MaxHomeNum }
    \cup { [volts |-> r[1], resistance |-> r[4]] : r \in Readings }

\* POST /update_point/{home_id}: 404 when there is no such row
update_point ==
    /\ \E i \in 1..Len(table), upd \in Updates :
         table' = [table EXCEPT ![i] = Updated(table[i], upd)]
    /\ NoAnalysis
    /\ UNCHANGED callVars
    /\ UNCHANGED callerVars

\* DELETE /delete_all_points: 404 when the table is empty
delete_all_points ==
    /\ table # << >>
    /\ table' = << >>
    /\ NoAnalysis
    /\ UNCHANGED callVars
    /\ UNCHANGED callerVars

\* GET /find_paradox
analyze_data ==
    /\ snapshot' = extract_home_data(SelectAll(table))
    /\ paradox_point' = analyze_points(extract_home_data(SelectAll(table)))
    /\ UNCHANGED table
    /\ UNCHANGED callVars
    /\ UNCHANGED callerVars

NextStore ==
    \/ create_point
    \/ create_points_excel
    \/ update_point
    \/ delete_all_points
    \/ analyze_data

SpecStore == InitStore /\ [][NextStore]_vars

\* ------------------------------------------------- concurrent callers
\* number of callers, each making one call on a list of its own
NumCallers == 3
\* length of the lists they pass
CallLen == 4

Callers == 1..NumCallers

\* an ordinary reading and a reading with a current whose square underflows
CallChoices == { p \in PointChoices : p.home_id \in {1, 5} }

\* the lists the callers pass: ordinary readings, then either reading in
\* the last two places (calls that return 0, return 4, or raise)
CallInputs ==
    { s \in [1..CallLen -> CallChoices] :
        \A k \in 1..(CallLen - 2) : s[k].home_id = 1 }

InitCallers ==
    /\ points = << >>
    /\ pc = "off"
    /\ deltas = << >>
    /\ delt = NoResult
    /\ StoreIdle
    /\ args \in [Callers -> CallInputs]
    /\ given = args
    /\ cpc = [c \in Callers |-> "call"]
    /\ ci = [c \in Callers |-> 0]
    /\ cdeltas = [c \in Callers |-> << >>]
    /\ cres = [c \in Callers |-> NoResult]

\* the list deltas of every call, were it one object shared by the calls
SharedDeltas(c) == cdeltas[1]

\* the list deltas of the call of c: an object made by that call
OwnDeltas(c) == cdeltas[c]

\* caller c enters analyze_points: deltas = [] and the loop starts at 1
Enter(c) ==
    /\ cpc[c] = "call"
    /\ cpc' = [cpc EXCEPT ![c] = "loop"]
    /\ cdeltas' = [cdeltas EXCEPT ![c] = << >>]
    /\ ci' = [ci EXCEPT ![c] = 1]
    /\ UNCHANGED <<args, given, cres>>

\* one iteration of the loop of caller c
Iterate(c) ==
    /\ cpc[c] = "loop"
    /\ ci[c] < Len(args[c]) - 1
    /\ LET it == Iteration(args[c], ci[c])
       IN  IF it.err # "none"
           THEN /\ cpc' = [cpc EXCEPT ![c] = "done"]
                /\ cres' = [cres EXCEPT ![c] = Failure(it.err)]
                /\ UNCHANGED <<ci, cdeltas>>
           ELSE /\ cdeltas' = [cdeltas EXCEPT ![c] =
                        Append(OwnDeltas(c),
                               [delta |-> it.delta, home_id |-> it.home_id])]
                /\ ci' = [ci EXCEPT ![c] = ci[c] + 1]
                /\ UNCHANGED <<cpc, cres>>
    /\ UNCHANGED <<args, given>>

\* the loop of caller c is over: return max(deltas, ...)
Return(c) ==
    /\ cpc[c] = "loop"
    /\ ci[c] >= Len(args[c]) - 1
    /\ cpc' = [cpc EXCEPT ![c] = "done"]
    /\ cres' = [cres EXCEPT ![c] = MaxDelta(OwnDeltas(c))]
    /\ UNCHANGED <<args, given, ci, cdeltas>>

NextCallers ==
    \E c \in Callers :
        /\ \/ Enter(c)
           \/ Iterate(c)
           \/ Return(c)
        /\ UNCHANGED callVars
        /\ UNCHANGED storeVars

SpecCallers == InitCallers /\ [][NextCallers]_vars

\* ---------------------------------------------------------- properties
n == Len(points)

\* the 0-based indices the loop visits
Candidates == 1 .. (n - 2)

Returned == pc = "done" /\ delt.status = "ok"

\* Sum of the currents of the points at 0-based indices lo..hi, added in
\* ascending order
RECURSIVE SumCurrents(_, _, _)
SumCurrents(pts, lo, hi) ==
    IF hi < lo THEN Zero
    ELSE FAdd(SumCurrents(pts, lo, hi - 1), pts[hi + 1].values[2])

\* The delta of section 4.1 for the 0-based index i: 0 if R_i = 0 or
\* S_i = 0, otherwise ((V_i - V_{i+1})^2 / R_i) / (S_i^2 * R_i)
FormulaDelta(pts, i) ==
    LET V == pts[i + 1].values[1]
        Vnext == pts[i + 2].values[1]
        R == pts[i + 1].values[4]
        S == SumCurrents(pts, i + 2, Len(pts) - 1)
    IN  IF IsZero(R) \/ IsZero(S) THEN Zero
        ELSE FDiv(FDiv(FSquare(FSub(V, Vnext)).val, R), FMul(FSquare(S).val, R))

DistinctIds == \A a, b \in 1..n : a # b => points[a].home_id # points[b].home_id

\* C1: a call with fewer than 3 points fails with an explicit
\* InsufficientData condition, never with the failure of a maximum taken
\* over an empty list.
C1_InsufficientData ==
    (pc = "done" /\ n < 3) => delt.status = "InsufficientData"

\* C2: when a call with n >= 3 points returns a pair, there is a candidate
\* index i in 1..n-2 whose identifier is the returned home_id and whose
\* delta by the formula of section 4.1 is the returned delta.
C2_ReturnedDeltaIsFormula ==
    (Returned /\ n >= 3) =>
        \E i \in Candidates :
            /\ delt.home_id = points[i + 1].home_id
            /\ delt.delta = FormulaDelta(points, i)

\* a returned finite non-zero delta of a candidate with future currents
C2_Witness ==
    /\ Returned
    /\ n >= 4
    /\ IsFin(delt.delta)
    /\ ~IsZero(delt.delta)

C4_NeverFirstOrLast ==
    (Returned /\ n >= 3 /\ DistinctIds) =>
        /\ delt.home_id # points[1].home_id
        /\ delt.home_id # points[n].home_id

\* a call over distinct identifiers returned an interior point
C4_Witness ==
    /\ Returned
    /\ n >= 4
    /\ DistinctIds
    /\ \E i \in Candidates : delt.home_id = points[i + 1].home_id

\* the delta of candidate i was computed: the loop completed iteration i
Computed(i) == pc = "done" /\ i <= Len(deltas)

\* the iteration of candidate i is the one that raised ZeroDivisionError
DividedByZeroAt(i) ==
    pc = "done" /\ delt.status = "ZeroDivisionError" /\ i = Len(deltas) + 1

\* every point after 0-based index i + 1 has current 0
NoFutureCurrent(i) == \A j \in (i + 3) .. n : IsZero(points[j].values[2])

C7_NonNegative ==
    (pc = "done" /\ n >= 3) =>
        \A j \in 1..Len(deltas) : FGe(deltas[j].delta, Zero)

\* C8: every call with n >= 3 points returns a result, with a delta
\* computed for each of its n-2 candidates: no division by zero and no
\* other failure.
C8_Total ==
    (pc = "done" /\ n >= 3) =>
        /\ delt.status = "ok"
        /\ Len(deltas) = n - 2

\* C9: for the 19-point reference series the call returns the point with
\* identifier 16 (0-based index 15); its delta is the formula's, 1600/729,
\* and is strictly greater than the formula's delta of each of the 16 other
\* candidates.
C9_ReferenceSeries ==
    (pc = "done" /\ points = data) =>
        /\ n = 19
        /\ delt.status = "ok"
        /\ Len(deltas) = 17
        /\ delt.home_id = 16
        /\ delt.delta = FormulaDelta(data, 15)
        /\ delt.delta = Fin(1600, 729)
        /\ \A i \in Candidates :
            i # 15 => FLt(FormulaDelta(data, i), delt.delta)

\* the reference series was analysed and a point returned
C9_Witness ==
    /\ Returned
    /\ points = data
    /\ points[16].home_id = 16
    /\ delt.home_id = 16

C13_SnapshotSorted ==
    \A i, j \in 1..Len(snapshot) :
        i < j => snapshot[i].values[5] <= snapshot[j].values[5]

\* C11: two calls of analyze_points on the same list produce the same
\* result, whatever the other calls did before or between their steps.
C11_SameInputSameResult ==
    \A a, b \in DOMAIN cpc :
        (cpc[a] = "done" /\ cpc[b] = "done" /\ given[a] = given[b]) =>
            cres[a] = cres[b]

\* two calls on the same list returned a pair while a call on another list
\* had started and not finished
C11_Witness ==
    \E a, b, c \in DOMAIN cpc :
        /\ a # b
        /\ cpc[a] = "done" /\ cpc[b] = "done"
        /\ given[a] = given[b]
        /\ given[c] # given[a]
        /\ cpc[c] = "loop"
        /\ cres[a].status = "ok"
        /\ ~IsZero(cres[a].delta)

\* C12: a call leaves its list as it was, and every call interleaved with
\* the calls of other callers produces what analyze_points produces for its
\* list alone.
C12_NoInterference ==
    \A c \in DOMAIN cpc :
        /\ args[c] = given[c]
        /\ cpc[c] = "done" => cres[c] = analyze_points(given[c])

\* a call that returned a non-zero delta ran its two iterations with a step
\* of another caller's unfinished call before it returned
C12_Witness ==
    \E a, b \in DOMAIN cpc :
        /\ a # b
        /\ cpc[a] = "done"
        /\ cres[a].status = "ok"
        /\ ~IsZero(cres[a].delta)
        /\ cpc[b] = "loop"
        /\ Len(cdeltas[b]) = 1
        /\ args[a] = given[a]

====
